---- MODULE Spec2Model ----
(***************************************************************************)
(* The NeuMF recommender class of the recommender-systems notebook         *)
(* (src/unnamed/part_000).  The notebook gives the class as a sketch: the  *)
(* constructor's members are described in the text that follows the code   *)
(* cell, and the body of forward is the single statement `pass`.           *)
(*                                                                         *)
(* One NeuMF object is modelled: it is constructed once, and forward is    *)
(* then called on it any number of times by a caller that keeps, compares  *)
(* or discards what the call returned (Spec), or by several threads at     *)
(* once (SpecThreads).  The second NeuMF class of the notebook, built from *)
(* a config, is modelled as the notebook describes it (SpecConfig).        *)
(***************************************************************************)
EXTENDS Integers, Sequences, FiniteSets

VARIABLES ctor, net, call, prev, between, ncalls, thr,
          conf, model, fwd, load,
          param, rcnn, det, lenet, out

vars == <<ctor, net, call, prev, between, ncalls, thr, conf, model, fwd, load,
          param, rcnn, det, lenet, out>>

\* the state of the sketched class, and the state of the described one
svars == <<ctor, net, call, prev, between, ncalls, thr>>
dvars == <<conf, model, fwd, load>>

\* a layer handed to the initialisers of the sketched constructor; the
\* GeneralizedRCNN object and its forward call; the LeNet object and its
\* forward call
ivars == <<param>>
rvars == <<rcnn, det>>
lvars == <<lenet, out>>

(***************************************************************************)
(* Bounds and input sets.                                                  *)
(***************************************************************************)
MaxBatch == 2       \* longest index sequence handed to forward
MaxCalls == 3       \* forward calls made on the object in one behaviour
NThreads == 2       \* threads that call forward on the one object

Threads == 1..NThreads

Counts == {0, 1, 2}     \* nb_users, nb_items handed to the constructor
Indices == {-1, 0, 1}   \* a negative index, a row, an index equal to a count
MfDims == {1, 2}
LayerSizes == {<<>>, <<2>>, <<3, 2>>, <<4, 2>>, <<2, 0>>}
Dropouts == {0, 50}   \* dropout probability in percent

\* the config handed to the second NeuMF class
Configs ==
  [num_users : {1, 2}, num_items : {1, 2}, latent_dim_mf : {1, 2},
   latent_dim_mlp : {1, 2}, layers : {<<>>, <<2>>, <<2, 1>>, <<4, 2>>, <<4, 3, 2>>}]

\* shape of the embedding_user_mf weight found in a pretrained checkpoint
Checkpoints == [num_embeddings : {1, 2}, embedding_dim : {1, 2, 3}]

\* values one entry of a weight or bias can hold, in thousandths
Thousandths == {-2500, -1000, 0, 1000, 2500}

\* the layers the initialisers can be handed: a Linear layer with its fan_in
\* and fan_out, or an Embedding with fan_in rows of dimension fan_out (and
\* no bias), each with one entry of its weight and of its bias
ParamLayers ==
  {l \in [kind : {"Linear", "Embedding"}, fan_in : {1, 2, 3}, fan_out : {1, 2, 3},
          weight : Thousandths, bias : Thousandths] :
     l.kind = "Embedding" => l.bias = 0}

\* GeneralizedRCNN.forward: the shape[-2:] of an image, the images of a call,
\* and the loss dictionaries that rpn and roi_heads can return
MaxImages == 2
Shapes == {<<1, 1>>, <<2, 1>>}
ImageLists == UNION {[1..k -> Shapes] : k \in 1..MaxImages}
Targets == [kind |-> "targets"]
LossKeys == {"loss_a", "loss_b"}
LossValues == {1, 2}
LossDicts == UNION {[keys -> LossValues] : keys \in SUBSET LossKeys}

\* LeNet.forward: the inputs x, as batch size, channels, height and width
Inputs ==
  {<<n, c, h, w>> : n \in {1, 2}, c \in {1, 3}, h \in {4, 28, 32, 36}, w \in {4, 28, 32, 36}}

Batches(n) == UNION {[1..k -> Indices] : k \in 0..n}

(***************************************************************************)
(* Python values.                                                          *)
(***************************************************************************)
PyNone == [kind |-> "None"]
NoModel == [kind |-> "NoModel"]
NoCall == [kind |-> "NoCall"]
Unset == [kind |-> "unset"]

\* nn.Embedding: "a simple lookup table that stores embeddings of a fixed
\* dictionary and size"
Embedding(num_embeddings, embedding_dim) ==
  [num_embeddings |-> num_embeddings, embedding_dim |-> embedding_dim]

\* the MLP embeddings sized without the halving
mlp_embed_dim_whole(mlp_layer_sizes) == mlp_layer_sizes[1]

\* size of the two MLP embeddings: mlp_layer_sizes[0] // 2
mlp_embed_dim(mlp_layer_sizes) == mlp_layer_sizes[1] \div 2

(***************************************************************************)
(* NeuMF.__init__(nb_users, nb_items, mf_dim, mlp_layer_sizes, dropout).   *)
(* Nothing is validated.  The members are nb_mlp_layers, the four          *)
(* embedding layers and the dropout; taking mlp_layer_sizes[0] of an empty *)
(* list raises IndexError.                                                 *)
(***************************************************************************)
NeuMF_init(nb_users, nb_items, mf_dim, mlp_layer_sizes, dropout) ==
  IF Len(mlp_layer_sizes) = 0
  THEN [raised |-> "IndexError", self |-> NoModel]
  ELSE [raised |-> "none",
        self |-> [kind |-> "NeuMF",
                  nb_mlp_layers |-> Len(mlp_layer_sizes),
                  mf_user_embed |-> Embedding(nb_users, mf_dim),
                  mf_item_embed |-> Embedding(nb_items, mf_dim),
                  mlp_user_embed |-> Embedding(nb_users, mlp_embed_dim(mlp_layer_sizes)),
                  mlp_item_embed |-> Embedding(nb_items, mlp_embed_dim(mlp_layer_sizes)),
                  dropout |-> dropout]]

\* forward with a write to the object: the dropout is switched off
forward_writes(self, user, item, sigmoid) ==
  [self |-> [self EXCEPT !.dropout = 0], raised |-> "none", ret |-> PyNone]

\* forward with a running value kept on the object and returned as score
forward_stateful(self, user, item, sigmoid) ==
  [self |-> [self EXCEPT !.nb_mlp_layers = @ + 1], raised |-> "none",
   ret |-> [kind |-> "scores", vals |-> [k \in 1..Len(user) |-> self.nb_mlp_layers]]]

\* forward with a dropout that is applied whatever the mode: the scores
\* depend on the dropout probability
forward_dropout(self, user, item, sigmoid) ==
  [self |-> self, raised |-> "none",
   ret |-> [kind |-> "scores", vals |-> [k \in 1..Len(user) |-> self.dropout]]]

(***************************************************************************)
(* NeuMF.forward(self, user, item, sigmoid=False): the body is `pass`, so  *)
(* the call reads nothing, writes nothing, raises nothing and returns      *)
(* None.  The operator gives the object after the call, the exception      *)
(* raised and the value returned.                                          *)
(***************************************************************************)
forward(self, user, item, sigmoid) ==
  [self |-> self, raised |-> "none", ret |-> PyNone]

(***************************************************************************)
(* State machine.                                                          *)
(***************************************************************************)
Init ==
  /\ ctor = NoCall
  /\ net = NoModel
  /\ call = NoCall
  /\ prev = Unset
  /\ between = 0
  /\ ncalls = 0
  /\ thr = [t \in Threads |-> [pc |-> "idle"]]
  /\ conf = NoCall
  /\ model = NoModel
  /\ fwd = NoCall
  /\ load = NoCall
  /\ param = NoModel
  /\ rcnn = NoModel
  /\ det = NoCall
  /\ lenet = NoModel
  /\ out = NoCall

\* model = NeuMF(nb_users, nb_items, mf_dim, mlp_layer_sizes, dropout)
Construct ==
  /\ ctor = NoCall
  /\ \E nb_users \in Counts, nb_items \in Counts, mf_dim \in MfDims,
        mlp_layer_sizes \in LayerSizes, dropout \in Dropouts :
       LET r == NeuMF_init(nb_users, nb_items, mf_dim, mlp_layer_sizes, dropout) IN
         /\ ctor' = [kind |-> "call", nb_users |-> nb_users, nb_items |-> nb_items,
                     mf_dim |-> mf_dim, mlp_layer_sizes |-> mlp_layer_sizes,
                     dropout |-> dropout, raised |-> r.raised]
         /\ net' = r.self
  /\ UNCHANGED <<call, prev, between, ncalls, thr>>
  /\ UNCHANGED dvars
  /\ UNCHANGED <<ivars, rvars, lvars>>

\* model.forward(user, item, sigmoid), the caller holding no earlier result
Forward ==
  /\ net.kind = "NeuMF"
  /\ call = NoCall
  /\ ncalls < MaxCalls
  /\ \E user \in Batches(MaxBatch), item \in Batches(MaxBatch), sigmoid \in BOOLEAN :
       LET r == forward(net, user, item, sigmoid) IN
         /\ call' = [kind |-> "call", user |-> user, item |-> item,
                     sigmoid |-> sigmoid, raised |-> r.raised, ret |-> r.ret]
         /\ net' = r.self
  /\ ncalls' = ncalls + 1
  /\ UNCHANGED <<ctor, prev, between, thr>>
  /\ UNCHANGED dvars
  /\ UNCHANGED <<ivars, rvars, lvars>>

\* another call model.forward([u], [u]), sigmoid left at its default False,
\* made while the caller still holds the result of the call before; what it
\* returns is dropped
ForwardBetween ==
  /\ call.kind = "call"
  /\ prev = Unset
  /\ ncalls < MaxCalls
  /\ \E u \in Indices :
       net' = forward(net, <<u>>, <<u>>, FALSE).self
  /\ between' = between + 1
  /\ ncalls' = ncalls + 1
  /\ UNCHANGED <<ctor, call, prev, thr>>
  /\ UNCHANGED dvars
  /\ UNCHANGED <<ivars, rvars, lvars>>

\* the held call made once more with the same arguments; the caller keeps
\* the earlier result next to the new one
ForwardRepeat ==
  /\ call.kind = "call"
  /\ prev = Unset
  /\ ncalls < MaxCalls
  /\ LET r == forward(net, call.user, call.item, call.sigmoid) IN
       /\ prev' = [kind |-> "result", raised |-> call.raised, ret |-> call.ret]
       /\ call' = [call EXCEPT !.raised = r.raised, !.ret = r.ret]
       /\ net' = r.self
  /\ ncalls' = ncalls + 1
  /\ UNCHANGED <<ctor, between, thr>>
  /\ UNCHANGED dvars
  /\ UNCHANGED <<ivars, rvars, lvars>>

\* the caller drops the result it holds
Release ==
  /\ call.kind = "call"
  /\ call' = NoCall
  /\ prev' = Unset
  /\ between' = 0
  /\ UNCHANGED <<ctor, net, ncalls, thr>>
  /\ UNCHANGED dvars
  /\ UNCHANGED <<ivars, rvars, lvars>>

Next ==
  \/ Construct
  \/ Forward
  \/ ForwardBetween
  \/ ForwardRepeat
  \/ Release

Spec == Init /\ [][Next]_vars

(***************************************************************************)
(* The second NeuMF class, built from a config.  Its code cell is a stub;  *)
(* the notebook describes the members its constructor defines and the six  *)
(* operations of its forward.                                              *)
(***************************************************************************)
Linear(in_features, out_features) ==
  [in_features |-> in_features, out_features |-> out_features]

\* every layer maps a width of layers to itself
fc_layers_square(layers) ==
  [i \in 1..(Len(layers) - 1) |-> Linear(layers[i], layers[i])]

\* "nn.Linear layers of in_size input size and out_size output size
\* according to the layers defined in config"
fc_layers(layers) ==
  [i \in 1..(Len(layers) - 1) |-> Linear(layers[i], layers[i + 1])]

\* the first width of layers where the final one is described
affine_in_features_first(config) ==
  config.layers[1] + config.latent_dim_mf

\* affine_output "concatenates the output of the final layer in layers with
\* latent_dim_mf"
affine_in_features(config) ==
  config.layers[Len(config.layers)] + config.latent_dim_mf

NeuMF_config_init(config) ==
  IF Len(config.layers) = 0
  THEN [raised |-> "IndexError", self |-> NoModel]
  ELSE [raised |-> "none",
        self |-> [kind |-> "NeuMF",
                  embedding_user_mlp |-> Embedding(config.num_users, config.latent_dim_mlp),
                  embedding_item_mlp |-> Embedding(config.num_items, config.latent_dim_mlp),
                  embedding_user_mf |-> Embedding(config.num_users, config.latent_dim_mf),
                  embedding_item_mf |-> Embedding(config.num_items, config.latent_dim_mf),
                  fc_layers |-> fc_layers(config.layers),
                  affine_output |-> Linear(affine_in_features(config), 1),
                  logistic |-> "Sigmoid"]]

\* One feature of a vector inside forward: the member that produced it, the
\* embedding row or layer number it comes from, and its position.
Feature(src, at, pos) == [src |-> src, at |-> at, pos |-> pos]

\* an embedding applied to one index: the row of that index
Lookup(name, table, index) ==
  [k \in 1..table.embedding_dim |-> Feature(name, index, k)]

\* a layer applied to a vector: out_features features
Apply(name, l, out_features) ==
  [k \in 1..out_features |-> Feature(name, l, k)]

Op(op, layer) == [op |-> op, layer |-> layer]

\* the activation ahead of the layer it belongs to
layer_ops_relu_first(l) == <<Op("relu", l), Op("linear", l)>>

\* operation 3, for the l-th layer of fc_layers: the layer, with ReLU
\* activation
layer_ops(l) == <<Op("linear", l), Op("relu", l)>>

RECURSIVE hidden_ops(_, _)
hidden_ops(l, n) ==
  IF l > n THEN <<>> ELSE layer_ops(l) \o hidden_ops(l + 1, n)

\* the operations of forward, in the order the notebook lists them
forward_ops(self) ==
  <<Op("embed", 0), Op("concat", 0)>>
    \o hidden_ops(1, Len(self.fc_layers))
    \o <<Op("fuse", 0), Op("affine", 0), Op("logistic", 0)>>

\* the stub: takes no checkpoint, checks nothing, writes nothing
load_pretrain_weights(self) == [self |-> self, raised |-> "none"]

(***************************************************************************)
(* Threads that share the object.  Each thread makes one call              *)
(* model.forward([u], [i]); entering the call and running its body are     *)
(* separate steps, so the calls of the threads overlap in every order.     *)
(***************************************************************************)
ThreadCall ==
  /\ net.kind = "NeuMF"
  /\ \E t \in Threads, u \in Indices, i \in Indices :
       /\ thr[t].pc = "idle"
       /\ thr' = [thr EXCEPT ![t] = [pc |-> "called", user |-> <<u>>, item |-> <<i>>]]
  /\ UNCHANGED <<ctor, net, call, prev, between, ncalls>>
  /\ UNCHANGED dvars
  /\ UNCHANGED <<ivars, rvars, lvars>>

ThreadReturn ==
  /\ \E t \in Threads :
       /\ thr[t].pc = "called"
       /\ LET r == forward(net, thr[t].user, thr[t].item, FALSE) IN
            /\ thr' = [thr EXCEPT ![t] = [pc |-> "returned", user |-> thr[t].user,
                                           item |-> thr[t].item,
                                           raised |-> r.raised, ret |-> r.ret]]
            /\ net' = r.self
  /\ UNCHANGED <<ctor, call, prev, between, ncalls>>
  /\ UNCHANGED dvars
  /\ UNCHANGED <<ivars, rvars, lvars>>

NextThreads ==
  \/ Construct
  \/ ThreadCall
  \/ ThreadReturn

SpecThreads == Init /\ [][NextThreads]_vars

(***************************************************************************)
(* The described class at work: one object is built from a config, then    *)
(* forward is called on it for one (user, item) pair of valid indices at a *)
(* time and runs operation by operation, and load_pretrain_weights is      *)
(* called with whatever checkpoint the files hold.  The description names  *)
(* no failure of an operation; each vector is kept with its features, so   *)
(* the width an operation is handed is visible in the state.               *)
(***************************************************************************)
ConstructConfig ==
  /\ conf = NoCall
  /\ \E config \in Configs :
       LET r == NeuMF_config_init(config) IN
         /\ conf' = [kind |-> "call", config |-> config, raised |-> r.raised]
         /\ model' = r.self
  /\ UNCHANGED <<fwd, load>>
  /\ UNCHANGED svars
  /\ UNCHANGED <<ivars, rvars, lvars>>

ForwardCall ==
  /\ model.kind = "NeuMF"
  /\ fwd = NoCall
  /\ \E u \in 0..(model.embedding_user_mlp.num_embeddings - 1),
        i \in 0..(model.embedding_item_mlp.num_embeddings - 1) :
       fwd' = [kind |-> "call", pc |-> 1, user_indices |-> u, item_indices |-> i,
               user_mlp |-> <<>>, item_mlp |-> <<>>, user_mf |-> <<>>, item_mf |-> <<>>,
               mlp_vector |-> <<>>, mf_vector |-> <<>>, vector |-> <<>>,
               logits |-> <<>>, rating |-> <<>>, trace |-> <<>>]
  /\ UNCHANGED <<conf, model, load>>
  /\ UNCHANGED svars
  /\ UNCHANGED <<ivars, rvars, lvars>>

\* forward stands before an operation of the given kind
Before(op) ==
  /\ fwd.kind = "call"
  /\ fwd.pc <= Len(forward_ops(model))
  /\ forward_ops(model)[fwd.pc].op = op

\* the call record once the operation at hand is done
Stepped == [fwd EXCEPT !.pc = @ + 1, !.trace = Append(@, forward_ops(model)[fwd.pc])]

\* 1) apply the mlp and mf embeddings to each set of indices
ApplyEmbeddings ==
  /\ Before("embed")
  /\ fwd' = [Stepped EXCEPT
               !.user_mlp = Lookup("embedding_user_mlp", model.embedding_user_mlp, fwd.user_indices),
               !.item_mlp = Lookup("embedding_item_mlp", model.embedding_item_mlp, fwd.item_indices),
               !.user_mf = Lookup("embedding_user_mf", model.embedding_user_mf, fwd.user_indices),
               !.item_mf = Lookup("embedding_item_mf", model.embedding_item_mf, fwd.item_indices)]
  /\ UNCHANGED <<conf, model, load>>
  /\ UNCHANGED svars
  /\ UNCHANGED <<ivars, rvars, lvars>>

\* 2) concatenate the mlp embeddings into mlp_vector, the mf embeddings
\* into mf_vector
ConcatenateEmbeddings ==
  /\ Before("concat")
  /\ fwd' = [Stepped EXCEPT !.mlp_vector = fwd.user_mlp \o fwd.item_mlp,
                            !.mf_vector = fwd.user_mf \o fwd.item_mf]
  /\ UNCHANGED <<conf, model, load>>
  /\ UNCHANGED svars
  /\ UNCHANGED <<ivars, rvars, lvars>>

\* 3) a layer of fc_layers applied to mlp_vector
ApplyLinear ==
  /\ Before("linear")
  /\ LET l == forward_ops(model)[fwd.pc].layer IN
       fwd' = [Stepped EXCEPT
                 !.mlp_vector = Apply("fc_layers", l, model.fc_layers[l].out_features)]
  /\ UNCHANGED <<conf, model, load>>
  /\ UNCHANGED svars
  /\ UNCHANGED <<ivars, rvars, lvars>>

\* 3) the ReLU activation of that layer
ApplyReLU ==
  /\ Before("relu")
  /\ LET l == forward_ops(model)[fwd.pc].layer IN
       fwd' = [Stepped EXCEPT !.mlp_vector = Apply("ReLU", l, Len(fwd.mlp_vector))]
  /\ UNCHANGED <<conf, model, load>>
  /\ UNCHANGED svars
  /\ UNCHANGED <<ivars, rvars, lvars>>

\* 4) concatenate mlp_vector and mf_vector
ConcatenateVectors ==
  /\ Before("fuse")
  /\ fwd' = [Stepped EXCEPT !.vector = fwd.mlp_vector \o fwd.mf_vector]
  /\ UNCHANGED <<conf, model, load>>
  /\ UNCHANGED svars
  /\ UNCHANGED <<ivars, rvars, lvars>>

\* 5) the linear transformation affine_output
ApplyAffineOutput ==
  /\ Before("affine")
  /\ fwd' = [Stepped EXCEPT
               !.logits = Apply("affine_output", 0, model.affine_output.out_features)]
  /\ UNCHANGED <<conf, model, load>>
  /\ UNCHANGED svars
  /\ UNCHANGED <<ivars, rvars, lvars>>

\* 6) the sigmoid activation; its output is the rating
ApplyLogistic ==
  /\ Before("logistic")
  /\ fwd' = [Stepped EXCEPT !.rating = Apply("logistic", 0, Len(fwd.logits))]
  /\ UNCHANGED <<conf, model, load>>
  /\ UNCHANGED svars
  /\ UNCHANGED <<ivars, rvars, lvars>>

\* the rating is returned and the caller is free to call again
ForwardReturn ==
  /\ fwd.kind = "call"
  /\ fwd.pc > Len(forward_ops(model))
  /\ fwd' = NoCall
  /\ UNCHANGED <<conf, model, load>>
  /\ UNCHANGED svars
  /\ UNCHANGED <<ivars, rvars, lvars>>

LoadPretrainWeights ==
  /\ model.kind = "NeuMF"
  /\ \E checkpoint \in Checkpoints :
       LET r == load_pretrain_weights(model) IN
         /\ load' = [kind |-> "call", checkpoint |-> checkpoint, raised |-> r.raised]
         /\ model' = r.self
  /\ UNCHANGED <<conf, fwd>>
  /\ UNCHANGED svars
  /\ UNCHANGED <<ivars, rvars, lvars>>

NextConfig ==
  \/ ConstructConfig
  \/ ForwardCall
  \/ ApplyEmbeddings
  \/ ConcatenateEmbeddings
  \/ ApplyLinear
  \/ ApplyReLU
  \/ ConcatenateVectors
  \/ ApplyAffineOutput
  \/ ApplyLogistic
  \/ ForwardReturn
  \/ LoadPretrainWeights

SpecConfig == Init /\ [][NextConfig]_vars

(***************************************************************************)
(* The two initialisers that the sketched constructor defines.  Both       *)
(* bodies are `pass`, and the constructor calls neither.  A layer is made  *)
(* with whatever entries it has, and an initialiser is then run on it.     *)
(***************************************************************************)
glorot_uniform(layer) == layer

lecunn_uniform(layer) == layer

MakeLayer ==
  /\ \E l \in ParamLayers : param' = [kind |-> "layer", layer |-> l, by |-> "none"]
  /\ UNCHANGED <<svars, dvars, rvars, lvars>>

GlorotUniform ==
  /\ param.kind = "layer"
  /\ param.by = "none"
  /\ param' = [param EXCEPT !.layer = glorot_uniform(param.layer), !.by = "glorot_uniform"]
  /\ UNCHANGED <<svars, dvars, rvars, lvars>>

LecunnUniform ==
  /\ param.kind = "layer"
  /\ param.by = "none"
  /\ param' = [param EXCEPT !.layer = lecunn_uniform(param.layer), !.by = "lecunn_uniform"]
  /\ UNCHANGED <<svars, dvars, rvars, lvars>>

NextInit ==
  \/ MakeLayer
  \/ GlorotUniform
  \/ LecunnUniform

SpecInit == Init /\ [][NextInit]_vars

(***************************************************************************)
(* GeneralizedRCNN (object_detection.ipynb).  The constructor keeps its    *)
(* four collaborators; forward is written as a function of its own cell    *)
(* and reads the mode from self.training.  The collaborators are the       *)
(* caller's: each call of one returns some value of its kind, and the      *)
(* model follows forward statement by statement.                           *)
(***************************************************************************)
GeneralizedRCNN_init(backbone, rpn, roi_heads, transform) ==
  [kind |-> "GeneralizedRCNN", transform |-> transform, backbone |-> backbone,
   rpn |-> rpn, roi_heads |-> roi_heads]

\* the check raises for a missing targets in inference mode too
targets_check_any_mode(training, targets) ==
  IF targets = PyNone THEN "ValueError" ELSE "none"

\* if self.training and targets is None: raise ValueError(...)
targets_check(training, targets) ==
  IF training /\ targets = PyNone THEN "ValueError" ELSE "none"

\* the image sizes are taken after transform has run
statements_sizes_late ==
  <<"transform", "original_image_sizes", "backbone", "rpn", "roi_heads",
    "postprocess", "losses", "return">>

\* the statements of forward after the check, in the order of the code
statements ==
  <<"original_image_sizes", "transform", "backbone", "rpn", "roi_heads",
    "postprocess", "losses", "return">>

\* dict.update
update(d, e) ==
  [k \in (DOMAIN d) \cup (DOMAIN e) |-> IF k \in DOMAIN e THEN e[k] ELSE d[k]]

\* the two updates in the other order
collect_losses_detector_last(detector_losses, proposal_losses) ==
  update(update(<<>>, proposal_losses), detector_losses)

\* losses = {}; losses.update(detector_losses); losses.update(proposal_losses)
collect_losses(detector_losses, proposal_losses) ==
  update(update(<<>>, detector_losses), proposal_losses)

ConstructRCNN ==
  /\ rcnn = NoModel
  /\ rcnn' = GeneralizedRCNN_init("backbone", "rpn", "roi_heads", "transform")
  /\ UNCHANGED det
  /\ UNCHANGED <<svars, dvars, ivars, lvars>>

\* the call and its check of targets
RcnnForward ==
  /\ rcnn.kind = "GeneralizedRCNN"
  /\ det = NoCall
  /\ \E training \in BOOLEAN, images \in ImageLists, targets \in {PyNone, Targets} :
       det' = [kind |-> "call", training |-> training, arg_images |-> images,
               targets |-> targets, raised |-> targets_check(training, targets),
               pc |-> 1, invoked |-> <<>>, images |-> images,
               original_image_sizes |-> <<>>, post_sizes |-> Unset,
               features |-> Unset, proposal_losses |-> <<>>,
               detector_losses |-> <<>>, detections |-> Unset, losses |-> <<>>,
               ret |-> Unset]
  /\ UNCHANGED rcnn
  /\ UNCHANGED <<svars, dvars, ivars, lvars>>

\* forward stands before the given statement
At(statement) ==
  /\ det.kind = "call"
  /\ det.raised = "none"
  /\ det.pc <= Len(statements)
  /\ statements[det.pc] = statement

\* original_image_sizes = [img.shape[-2:] for img in images]
RecordSizes ==
  /\ At("original_image_sizes")
  /\ det' = [det EXCEPT !.pc = @ + 1,
                        !.original_image_sizes = [k \in 1..Len(det.images) |-> det.images[k]]]
  /\ UNCHANGED rcnn
  /\ UNCHANGED <<svars, dvars, ivars, lvars>>

\* images, targets = self.transform(images, targets): the images come back
\* resized
Transform ==
  /\ At("transform")
  /\ \E sizes \in [1..Len(det.images) -> Shapes] :
       det' = [det EXCEPT !.pc = @ + 1, !.invoked = Append(@, rcnn.transform),
                          !.images = sizes]
  /\ UNCHANGED rcnn
  /\ UNCHANGED <<svars, dvars, ivars, lvars>>

\* features = self.backbone(images.tensors); a Tensor is wrapped in an
\* OrderedDict
Backbone ==
  /\ At("backbone")
  /\ \E features \in {"Tensor", "OrderedDict"} :
       det' = [det EXCEPT !.pc = @ + 1, !.invoked = Append(@, rcnn.backbone),
                          !.features = [kind |-> "OrderedDict",
                                        wrapped |-> (features = "Tensor")]]
  /\ UNCHANGED rcnn
  /\ UNCHANGED <<svars, dvars, ivars, lvars>>

\* proposals, proposal_losses = self.rpn(images, features, targets)
Rpn ==
  /\ At("rpn")
  /\ \E proposal_losses \in LossDicts :
       det' = [det EXCEPT !.pc = @ + 1, !.invoked = Append(@, rcnn.rpn),
                          !.proposal_losses = proposal_losses]
  /\ UNCHANGED rcnn
  /\ UNCHANGED <<svars, dvars, ivars, lvars>>

\* detections, detector_losses = self.roi_heads(features, proposals,
\* images.image_sizes, targets)
RoiHeads ==
  /\ At("roi_heads")
  /\ \E detector_losses \in LossDicts :
       det' = [det EXCEPT !.pc = @ + 1, !.invoked = Append(@, rcnn.roi_heads),
                          !.detector_losses = detector_losses,
                          !.detections = [kind |-> "detections", by |-> "roi_heads"]]
  /\ UNCHANGED rcnn
  /\ UNCHANGED <<svars, dvars, ivars, lvars>>

\* detections = self.transform.postprocess(detections, images.image_sizes,
\* original_image_sizes)
Postprocess ==
  /\ At("postprocess")
  /\ det' = [det EXCEPT !.pc = @ + 1, !.invoked = Append(@, "transform.postprocess"),
                        !.post_sizes = [image_sizes |-> det.images,
                                        original_image_sizes |-> det.original_image_sizes],
                        !.detections = [kind |-> "detections", by |-> "postprocess"]]
  /\ UNCHANGED rcnn
  /\ UNCHANGED <<svars, dvars, ivars, lvars>>

CollectLosses ==
  /\ At("losses")
  /\ det' = [det EXCEPT !.pc = @ + 1,
                        !.losses = collect_losses(det.detector_losses, det.proposal_losses)]
  /\ UNCHANGED rcnn
  /\ UNCHANGED <<svars, dvars, ivars, lvars>>

\* if self.training: return losses; return detections
RcnnReturn ==
  /\ At("return")
  /\ det' = [det EXCEPT !.pc = @ + 1,
                        !.ret = IF det.training
                                THEN [kind |-> "losses", val |-> det.losses]
                                ELSE [kind |-> "detections", val |-> det.detections]]
  /\ UNCHANGED rcnn
  /\ UNCHANGED <<svars, dvars, ivars, lvars>>

\* the caller has the result, or the error, and may call again
RcnnRelease ==
  /\ det.kind = "call"
  /\ det.raised # "none" \/ det.pc > Len(statements)
  /\ det' = NoCall
  /\ UNCHANGED rcnn
  /\ UNCHANGED <<svars, dvars, ivars, lvars>>

NextRCNN ==
  \/ ConstructRCNN
  \/ RcnnForward
  \/ RecordSizes
  \/ Transform
  \/ Backbone
  \/ Rpn
  \/ RoiHeads
  \/ Postprocess
  \/ CollectLosses
  \/ RcnnReturn
  \/ RcnnRelease

SpecRCNN == Init /\ [][NextRCNN]_vars

(***************************************************************************)
(* LeNet (part_003).  The constructor makes two convolutions and three     *)
(* linear layers; forward is followed statement by statement on the shape  *)
(* of its tensor.  A layer handed a tensor that does not fit it raises.    *)
(* nn.Conv2d and nn.Linear are taken with their defaults: stride 1, no     *)
(* padding, and a bias.                                                    *)
(***************************************************************************)
Conv2d(in_channels, out_channels, kernel_size) ==
  [in_channels |-> in_channels, out_channels |-> out_channels,
   kernel_size |-> kernel_size]

LeNet_init ==
  [kind |-> "LeNet",
   conv1 |-> Conv2d(3, 6, 5),
   conv2 |-> Conv2d(6, 16, 5),
   fc1 |-> Linear(16 * 5 * 5, 120),
   fc2 |-> Linear(120, 84),
   fc3 |-> Linear(84, 10)]

\* one kernel per output channel, whatever the number of input channels,
\* and no bias
Conv2d_numel_per_output(conv) ==
  conv.out_channels * conv.kernel_size * conv.kernel_size

\* the parameters of a convolution: a kernel per pair of input and output
\* channel, and a bias per output channel
Conv2d_numel(conv) ==
  conv.out_channels * conv.in_channels * conv.kernel_size * conv.kernel_size
    + conv.out_channels

\* the parameters of a linear layer: a weight per pair of input and output,
\* and a bias per output
Linear_numel(fc) == fc.in_features * fc.out_features + fc.out_features

\* a convolution that pads its input to keep the size
conv_size_padded(size, kernel_size) == size

\* the height or width after a convolution of stride 1 without padding
conv_size(size, kernel_size) == size - kernel_size + 1

\* the height or width after F.max_pool2d(out, 2)
pool_size(size) == size \div 2

\* self.convN(out) on a tensor of shape <<n, c, h, w>>
conv_apply(conv, shape) ==
  IF shape[2] # conv.in_channels \/ shape[3] < conv.kernel_size
       \/ shape[4] < conv.kernel_size
  THEN [raised |-> "RuntimeError", shape |-> shape]
  ELSE [raised |-> "none",
        shape |-> <<shape[1], conv.out_channels,
                    conv_size(shape[3], conv.kernel_size),
                    conv_size(shape[4], conv.kernel_size)>>]

\* F.max_pool2d(out, 2)
pool_apply(shape) ==
  IF pool_size(shape[3]) = 0 \/ pool_size(shape[4]) = 0
  THEN [raised |-> "RuntimeError", shape |-> shape]
  ELSE [raised |-> "none",
        shape |-> <<shape[1], shape[2], pool_size(shape[3]), pool_size(shape[4])>>]

\* self.fcN(out) on a tensor of shape <<n, features>>
fc_apply(fc, shape) ==
  IF shape[2] # fc.in_features
  THEN [raised |-> "RuntimeError", shape |-> shape]
  ELSE [raised |-> "none", shape |-> <<shape[1], fc.out_features>>]

ConstructLeNet ==
  /\ lenet = NoModel
  /\ lenet' = LeNet_init
  /\ UNCHANGED out
  /\ UNCHANGED <<svars, dvars, ivars, rvars>>

LeNetForward ==
  /\ lenet.kind = "LeNet"
  /\ out = NoCall
  /\ \E x \in Inputs :
       out' = [kind |-> "call", x |-> x, pc |-> 1, shape |-> x, shapes |-> <<>>,
               raised |-> "none", ret |-> Unset]
  /\ UNCHANGED lenet
  /\ UNCHANGED <<svars, dvars, ivars, rvars>>

\* forward stands before its pc-th statement
Line(pc) == out.kind = "call" /\ out.raised = "none" /\ out.pc = pc

\* the call record after a statement with the given outcome
After(r) ==
  IF r.raised # "none"
  THEN [out EXCEPT !.raised = r.raised]
  ELSE [out EXCEPT !.pc = @ + 1, !.shape = r.shape, !.shapes = Append(@, r.shape)]

\* out = F.relu(self.conv1(x))
Conv1 ==
  /\ Line(1)
  /\ out' = After(conv_apply(lenet.conv1, out.shape))
  /\ UNCHANGED lenet
  /\ UNCHANGED <<svars, dvars, ivars, rvars>>

\* out = F.max_pool2d(out, 2)
Pool1 ==
  /\ Line(2)
  /\ out' = After(pool_apply(out.shape))
  /\ UNCHANGED lenet
  /\ UNCHANGED <<svars, dvars, ivars, rvars>>

\* out = F.relu(self.conv2(out))
Conv2 ==
  /\ Line(3)
  /\ out' = After(conv_apply(lenet.conv2, out.shape))
  /\ UNCHANGED lenet
  /\ UNCHANGED <<svars, dvars, ivars, rvars>>

\* out = F.max_pool2d(out, 2)
Pool2 ==
  /\ Line(4)
  /\ out' = After(pool_apply(out.shape))
  /\ UNCHANGED lenet
  /\ UNCHANGED <<svars, dvars, ivars, rvars>>

\* out = out.view(out.size(0), -1)
View ==
  /\ Line(5)
  /\ out' = After([raised |-> "none",
                   shape |-> <<out.shape[1], out.shape[2] * out.shape[3] * out.shape[4]>>])
  /\ UNCHANGED lenet
  /\ UNCHANGED <<svars, dvars, ivars, rvars>>

\* out = F.relu(self.fc1(out))
Fc1 ==
  /\ Line(6)
  /\ out' = After(fc_apply(lenet.fc1, out.shape))
  /\ UNCHANGED lenet
  /\ UNCHANGED <<svars, dvars, ivars, rvars>>

\* out = F.relu(self.fc2(out))
Fc2 ==
  /\ Line(7)
  /\ out' = After(fc_apply(lenet.fc2, out.shape))
  /\ UNCHANGED lenet
  /\ UNCHANGED <<svars, dvars, ivars, rvars>>

\* out = self.fc3(out)
Fc3 ==
  /\ Line(8)
  /\ out' = After(fc_apply(lenet.fc3, out.shape))
  /\ UNCHANGED lenet
  /\ UNCHANGED <<svars, dvars, ivars, rvars>>

\* return out
LeNetReturn ==
  /\ Line(9)
  /\ out' = [out EXCEPT !.pc = @ + 1, !.ret = out.shape]
  /\ UNCHANGED lenet
  /\ UNCHANGED <<svars, dvars, ivars, rvars>>

\* the caller has the result, or the error, and may call again
LeNetRelease ==
  /\ out.kind = "call"
  /\ out.raised # "none" \/ out.pc = 10
  /\ out' = NoCall
  /\ UNCHANGED lenet
  /\ UNCHANGED <<svars, dvars, ivars, rvars>>

NextLeNet ==
  \/ ConstructLeNet
  \/ LeNetForward
  \/ Conv1
  \/ Pool1
  \/ Conv2
  \/ Pool2
  \/ View
  \/ Fc1
  \/ Fc2
  \/ Fc3
  \/ LeNetReturn
  \/ LeNetRelease

SpecLeNet == Init /\ [][NextLeNet]_vars

(***************************************************************************)
(* Vocabulary of the claims.                                               *)
(***************************************************************************)
Returned == call.kind = "call"
Fails(raised) == raised # "none"
IsScores(v) == v.kind = "scores"
InRange(seq, table) == \A k \in 1..Len(seq) : 0 <= seq[k] /\ seq[k] < table.num_embeddings
ValidBatch ==
  /\ Len(call.user) = Len(call.item)
  /\ InRange(call.user, net.mf_user_embed)
  /\ InRange(call.item, net.mf_item_embed)
Permutations(n) == {p \in [1..n -> 1..n] : \A a, b \in 1..n : p[a] = p[b] => a = b}
Permute(seq, p) == [k \in 1..Len(seq) |-> seq[p[k]]]
InOpenUnit(s) == 0 < s.num /\ s.num < s.den
Sigmoid(x) == [sigmoid_of |-> x]
InvalidLayerSizes(sizes) ==
  \/ Len(sizes) = 0
  \/ \E k \in 1..Len(sizes) : sizes[k] <= 0
  \/ sizes[1] % 2 = 1
\* a model built from a configuration the specification calls valid
ValidModel ==
  /\ net.kind = "NeuMF"
  /\ ctor.nb_users > 0
  /\ ctor.nb_items > 0
  /\ ~InvalidLayerSizes(ctor.mlp_layer_sizes)

\* C1: on a valid model and a valid batch of N pairs forward returns exactly
\* N scores, the k-th for the k-th pair: permuting the pairs permutes the
\* scores the same way.
C1_OneScorePerPairInOrder ==
  (Returned /\ ValidModel /\ ValidBatch) =>
    /\ IsScores(call.ret)
    /\ Len(call.ret.vals) = Len(call.user)
    /\ \A p \in Permutations(Len(call.user)) :
         LET r == forward(net, Permute(call.user, p), Permute(call.item, p), call.sigmoid).ret IN
           IsScores(r) /\ r.vals = Permute(call.ret.vals, p)

\* C2: a forward call on sequences of one length, with a user index outside
\* [0, nb_users) or an item index outside [0, nb_items), fails; the index is
\* never wrapped or clamped to a row, so nothing is returned.
C2_OutOfRangeIndexFails ==
  (Returned /\ ValidModel /\ Len(call.user) = Len(call.item)
     /\ ~(InRange(call.user, net.mf_user_embed) /\ InRange(call.item, net.mf_item_embed))) =>
    (Fails(call.raised) /\ ~IsScores(call.ret))

\* C3: a forward call whose user and item sequences, all indices in range,
\* differ in length fails and returns no scores.
C3_LengthMismatchFails ==
  (Returned /\ ValidModel /\ Len(call.user) # Len(call.item)
     /\ InRange(call.user, net.mf_user_embed) /\ InRange(call.item, net.mf_item_embed)) =>
    (Fails(call.raised) /\ ~IsScores(call.ret))

\* C4: construction fails, and yields no model, when mlp_layer_sizes is
\* empty, holds a width <= 0 or has an odd first element.
C4_MalformedLayerSizesRejected ==
  (ctor.kind = "call" /\ InvalidLayerSizes(ctor.mlp_layer_sizes)) =>
    (Fails(ctor.raised) /\ net = NoModel)

\* C5: construction fails when nb_users <= 0 or nb_items <= 0, so no
\* constructed model has an embedding table without rows.
C5_NonPositiveCountsRejected ==
  /\ (ctor.kind = "call" /\ (ctor.nb_users <= 0 \/ ctor.nb_items <= 0)) => Fails(ctor.raised)
  /\ net.kind = "NeuMF" =>
       \A t \in {net.mf_user_embed, net.mf_item_embed, net.mlp_user_embed, net.mlp_item_embed} :
         t.num_embeddings > 0

\* C6: a forward call either returns a complete batch of N scores or fails
\* and returns no score; there is no third outcome.
C6_CompleteBatchOrFailure ==
  (Returned /\ ValidModel) =>
    \/ ~Fails(call.raised) /\ IsScores(call.ret) /\ Len(call.ret.vals) = Len(call.user)
    \/ Fails(call.raised) /\ ~IsScores(call.ret)

\* C7: forward calls, on valid and on invalid batches alike, leave the
\* model as the constructor built it.
C7_ForwardLeavesModelAsBuilt ==
  net.kind = "NeuMF" =>
    net = NeuMF_init(ctor.nb_users, ctor.nb_items, ctor.mf_dim,
                     ctor.mlp_layer_sizes, ctor.dropout).self

\* C7 witness: several forward calls were made, the held one on a batch
\* that is not valid, with another call after it.
C7_Witness ==
  /\ Returned
  /\ ValidModel
  /\ ~ValidBatch
  /\ between >= 1
  /\ ncalls >= 2

C9_SigmoidScoresInOpenUnit ==
  (Returned /\ ValidModel /\ call.sigmoid /\ ValidBatch /\ Len(call.user) >= 1) =>
    /\ IsScores(call.ret)
    /\ Len(call.ret.vals) = Len(call.user)
    /\ \A k \in 1..Len(call.ret.vals) : InOpenUnit(call.ret.vals[k])

\* C10: forward with sigmoid=True is the logistic sigmoid applied to each
\* element of forward with sigmoid=False, which is the raw fusion output.
C10_SigmoidFlagOnlyLastStep ==
  (Returned /\ ValidModel /\ ValidBatch) =>
    LET raw == forward(net, call.user, call.item, FALSE).ret IN
      /\ IsScores(raw)
      /\ IsScores(call.ret)
      /\ call.ret.vals = IF call.sigmoid
                         THEN [k \in 1..Len(raw.vals) |-> Sigmoid(raw.vals[k])]
                         ELSE raw.vals

C20_MlpHalvesSumToFirstWidth ==
  (net.kind = "NeuMF" /\ ctor.nb_users > 0 /\ ctor.nb_items > 0) =>
    /\ net.mlp_user_embed.embedding_dim = net.mlp_item_embed.embedding_dim
    /\ net.mlp_user_embed.embedding_dim + net.mlp_item_embed.embedding_dim
         = ctor.mlp_layer_sizes[1]

\* the object as the constructor call made it
Built ==
  NeuMF_init(ctor.nb_users, ctor.nb_items, ctor.mf_dim,
             ctor.mlp_layer_sizes, ctor.dropout).self

Layers == conf.config.layers
LastWidth == Layers[Len(Layers)]

\* forward is running or has run its operations, the given one included
Done(op) ==
  /\ fwd.kind = "call"
  /\ \E p \in 1..Len(fwd.trace) : fwd.trace[p].op = op

\* a config whose widths fit together: at least one layer in fc_layers, and
\* the first width of layers is that of the two mlp embeddings side by side
WellFormedConfig ==
  /\ model.kind = "NeuMF"
  /\ Len(Layers) >= 2
  /\ Layers[1] = 2 * conf.config.latent_dim_mlp

C15_MismatchedCheckpointFails ==
  (load.kind = "call" /\ load.checkpoint # model.embedding_user_mf) =>
    Fails(load.raised)

\* C16: mf_vector has width latent_dim_mf (an elementwise product of the
\* two mf embeddings, not their concatenation).
C16_MfVectorHasWidthMfDim ==
  (Done("concat") /\ WellFormedConfig) =>
    Len(fwd.mf_vector) = conf.config.latent_dim_mf

\* C17: the concatenated vector holds the output of the last layer first,
\* in positions up to layers[-1], and latent_dim_mf features of the mf
\* branch after it; the mlp input is the user embedding, then the item one.
C17_FusionVectorLayout ==
  /\ (Done("concat") /\ ~Done("linear") /\ ~Done("relu")) =>
       fwd.mlp_vector = fwd.user_mlp \o fwd.item_mlp
  /\ (Done("fuse") /\ WellFormedConfig) =>
       /\ Len(fwd.mlp_vector) = LastWidth
       /\ SubSeq(fwd.vector, 1, LastWidth) = fwd.mlp_vector
       /\ Len(fwd.vector) = LastWidth + conf.config.latent_dim_mf

C21_InitialisedWithinBounds ==
  /\ (param.kind = "layer" /\ param.by = "glorot_uniform" /\ param.layer.kind = "Linear") =>
       /\ param.layer.bias = 0
       /\ param.layer.weight * param.layer.weight
            * (param.layer.fan_in + param.layer.fan_out) <= 6 * 1000 * 1000
  /\ (param.kind = "layer" /\ param.by = "lecunn_uniform" /\ param.layer.kind = "Embedding") =>
       param.layer.weight * param.layer.weight * param.layer.fan_out <= 3 * 1000 * 1000

\* C23: a forward call that breaks the contract of forward fails at its
\* caller, a failed construction leaves no object behind, and a valid call
\* repeated after other calls, failed ones among them, returns what it
\* returned before them.
C23_FailuresSurfacedAndWithoutEffect ==
  /\ (Returned /\ ValidModel /\ ~ValidBatch) => Fails(call.raised)
  /\ (ctor.kind = "call" /\ Fails(ctor.raised)) => net = NoModel
  /\ (prev.kind = "result" /\ ValidModel /\ ValidBatch) =>
       (prev.ret = call.ret /\ prev.raised = call.raised)

\* C24: on a valid model, forward on a valid batch of two or more pairs
\* returns the scores of any leading part of the batch followed by the
\* scores of the rest.
C24_BatchesConcatenate ==
  (Returned /\ ValidModel /\ ValidBatch /\ Len(call.user) >= 2) =>
    \A k \in 0..Len(call.user) :
      LET n == Len(call.user)
          head == forward(net, SubSeq(call.user, 1, k), SubSeq(call.item, 1, k),
                          call.sigmoid).ret
          rest == forward(net, SubSeq(call.user, k + 1, n), SubSeq(call.item, k + 1, n),
                          call.sigmoid).ret
      IN /\ IsScores(call.ret)
         /\ IsScores(head)
         /\ IsScores(rest)
         /\ call.ret.vals = head.vals \o rest.vals

\* Vocabulary of the claims about GeneralizedRCNN.forward.
Collaborators == <<"transform", "backbone", "rpn", "roi_heads", "transform.postprocess">>
RcnnReturned == det.kind = "call" /\ det.raised = "none" /\ det.ret # Unset

\* C25: forward raises ValueError exactly when it is called in training
\* mode with targets=None, and then no collaborator has been invoked.
C25_TargetsCheck ==
  det.kind = "call" =>
    /\ (det.training /\ det.targets = PyNone) <=> det.raised = "ValueError"
    /\ det.raised = "ValueError" => (det.invoked = <<>> /\ det.ret = Unset)
    /\ ~(det.training /\ det.targets = PyNone) => det.raised = "none"

\* C25 witness: a call in training mode without targets has raised.
C25_Witness ==
  /\ det.kind = "call"
  /\ det.training
  /\ det.targets = PyNone
  /\ det.raised = "ValueError"

\* C26: forward returns the losses exactly in training mode and the
\* postprocessed detections otherwise; the losses have every key of
\* detector_losses and of proposal_losses, with the value of
\* proposal_losses on a key of both.
C26_LossesOrDetections ==
  RcnnReturned =>
    /\ det.training <=> det.ret.kind = "losses"
    /\ ~det.training =>
         /\ det.ret.kind = "detections"
         /\ det.ret.val = [kind |-> "detections", by |-> "postprocess"]
    /\ det.training =>
         /\ DOMAIN det.ret.val = (DOMAIN det.detector_losses) \cup (DOMAIN det.proposal_losses)
         /\ \A k \in DOMAIN det.proposal_losses : det.ret.val[k] = det.proposal_losses[k]
         /\ \A k \in (DOMAIN det.detector_losses) \ (DOMAIN det.proposal_losses) :
              det.ret.val[k] = det.detector_losses[k]

\* C26 witness: a call in training mode has returned losses where a key of
\* both dictionaries had different values, and a key of detector_losses
\* only was there too.
C26_Witness ==
  /\ RcnnReturned
  /\ det.training
  /\ \E k \in (DOMAIN det.detector_losses) \cap (DOMAIN det.proposal_losses) :
       det.detector_losses[k] # det.proposal_losses[k]
  /\ (DOMAIN det.detector_losses) \ (DOMAIN det.proposal_losses) # {}

\* C27: a call that passed the check invokes transform, backbone, rpn,
\* roi_heads and transform.postprocess in this order, each once by the time
\* it returns; the sizes handed to postprocess as the original ones are
\* those of the images as the caller passed them; training mode runs
\* postprocess as well.
C27_CollaboratorsInOrder ==
  det.kind = "call" =>
    /\ Len(det.invoked) <= Len(Collaborators)
    /\ det.invoked = SubSeq(Collaborators, 1, Len(det.invoked))
    /\ RcnnReturned => det.invoked = Collaborators
    /\ Len(det.invoked) >= 1 => det.original_image_sizes = det.arg_images
    /\ det.post_sizes # Unset => det.post_sizes.original_image_sizes = det.arg_images

\* C27 witness: a call in training mode has returned after transform gave
\* the images other sizes than they came with.
C27_Witness ==
  /\ RcnnReturned
  /\ det.training
  /\ det.post_sizes.image_sizes # det.arg_images

\* Vocabulary of the claims about LeNet.
TotalParameters ==
  Conv2d_numel(lenet.conv1) + Conv2d_numel(lenet.conv2)
    + Linear_numel(lenet.fc1) + Linear_numel(lenet.fc2) + Linear_numel(lenet.fc3)
Cifar(x) == x[2] = 3 /\ x[3] = 32 /\ x[4] = 32

C29_ShapesOnCifar ==
  (out.kind = "call" /\ Cifar(out.x)) =>
    LET n == out.x[1] IN
    /\ out.raised = "none"
    /\ Len(out.shapes) >= 1 => out.shapes[1] = <<n, 6, 28, 28>>
    /\ Len(out.shapes) >= 2 => out.shapes[2] = <<n, 6, 14, 14>>
    /\ Len(out.shapes) >= 3 => out.shapes[3] = <<n, 16, 10, 10>>
    /\ Len(out.shapes) >= 4 => out.shapes[4] = <<n, 16, 5, 5>>
    /\ Len(out.shapes) >= 5 =>
         /\ out.shapes[5] = <<n, 400>>
         /\ out.shapes[5][2] = lenet.fc1.in_features
    /\ out.ret # Unset => out.ret = <<n, 10>>

\* C29 witness: forward has returned on a batch of two 32x32 inputs of 3
\* channels.
C29_Witness ==
  /\ out.kind = "call"
  /\ Cifar(out.x)
  /\ out.x[1] = 2
  /\ out.ret # Unset

====
